---- MODULE Spec2Model ----
(***************************************************************************)
(* A model of server/quiz_server.py: the Flask handlers index, quiz,       *)
(* validate, complete, reset and reset_page, the course documents they     *)
(* load and the completion-marker files they write and delete in /root.    *)
(*                                                                         *)
(* Spec     /complete and /reset requests handled one at a time, each      *)
(*          handler one atomic action, with storage faults chosen by the   *)
(*          environment.                                                   *)
(* SpecRead the handlers that only read (index, quiz, validate,            *)
(*          reset_page), each applied to a request, a set of course        *)
(*          documents and a marker store drawn from bounded sets.          *)
(* SpecConc /complete and /reset requests of one (course, lab) pair run by *)
(*          concurrent threads, one filesystem call per step, no faults.   *)
(* SpecPage one quiz page in a browser (the script of HTML_TEMPLATE) and   *)
(*          the server handling its /validate, /complete and /reset        *)
(*          requests, each request and response in flight on its own.      *)
(* SpecMarker  SpecPage with the verdicts of /validate recorded.           *)
(***************************************************************************)
EXTENDS Naturals, Sequences, FiniteSets, TLC

VARIABLES
    docs,     \* questions/<course>.yaml: course name -> document
    store,    \* /root: marker file name -> content
    request,  \* SpecRead: the request received and not yet handled
    last,     \* the last request handled and its response
    before,   \* Spec: a summary of the request handled before the last one
    threads,  \* SpecConc: the requests in flight, one per thread
    applied,  \* SpecConc: the last filesystem call applied to the marker
    page,     \* SpecPage: the quiz page open in the browser
    localStorage, \* SpecPage: the item quizProgress_<course>_<lab> of the browser
    net,      \* SpecPage: the fetch requests and responses in flight
    verified  \* SpecMarker: the questions /validate found correct since
              \*           the marker of the page's pair was last deleted, and
              \*           since the server last handled a /reset

vars == <<docs, store, request, last, before, threads, applied,
          page, localStorage, net, verified>>

(***************************************************************************)
(* Bounds of the model.                                                    *)
(***************************************************************************)
MaxLen == 3        \* longest submitted answer, in characters
MaxThreads == 3    \* concurrent requests in SpecConc

(***************************************************************************)
(* Identifiers.  The course and lab names are chosen so that two different *)
(* pairs, ("a", "b_c") and ("a_b", "c"), exist whose names contain the     *)
(* separator the marker file name is built with.                           *)
(***************************************************************************)
Courses == {"a", "a_b"}
Labs == {"b_c", "c"}
\* the pairs /complete and /reset are called for
Pairs == {<<"a", "b_c">>, <<"a_b", "c">>, <<"a", "c">>}
UnknownCourse == "zz"
UnknownLab == "lab9"

(***************************************************************************)
(* The marker store.  A file is absent, empty (opened for writing, nothing *)
(* written yet or the write failed) or holds the completion line.          *)
(***************************************************************************)
NoFile == "<absent>"
Empty == ""
completed_line(course_name, lab_id) ==
    "Quiz " \o course_name \o "/" \o lab_id \o " completed successfully\n"

\* f'/root/quiz_complete_{course_name}_{lab_id}.txt'
completion_file(course_name, lab_id) ==
    [dir |-> "/root",
     name |-> "quiz_complete_" \o course_name \o "_" \o lab_id \o ".txt"]

basename(path) == path.name
fullpath(path) == path.dir \o "/" \o path.name

Files == {completion_file(p[1], p[2]).name : p \in Pairs}

os_path_exists(fs, path) == fs[path.name] # NoFile

\* glob.glob('/root/quiz_complete_*.txt'): every file of the store matches.
glob_markers(fs) == {[dir |-> "/root", name |-> n] : n \in {m \in Files : fs[m] # NoFile}}

(***************************************************************************)
(* Storage faults.  The environment chooses, per request, whether open()   *)
(* or the write fails and which files os.remove cannot delete, and the     *)
(* text of the OSError raised.                                             *)
(***************************************************************************)
ErrTexts == {"EACCES", "ENOSPC"}
ENOENT == "ENOENT"
NoFault == [open |-> FALSE, write |-> FALSE, remove |-> {}, text |-> "EACCES"]
Faults == [open : BOOLEAN, write : BOOLEAN, remove : SUBSET Files, text : ErrTexts]
CompleteFaults == {f \in Faults : f.remove = {} /\ ~(f.open /\ f.write)}
ResetFaults == {f \in Faults : ~f.open /\ ~f.write /\ (f.remove = {} => f.text = "EACCES")}

(***************************************************************************)
(* Requests and responses.  request.json is the JSON body: a mapping, or   *)
(* null (BodyNull), which has no .get.                                     *)
(***************************************************************************)
BodyNull == [json |-> "null"]
is_null(data) == data.json = "null"
Returned(status, body) == [handled |-> TRUE, status |-> status, body |-> body]
Raised(exc) == [handled |-> FALSE, status |-> 500, body |-> [exc |-> exc]]

\* data.get('reset_all', False), then "if reset_all:"
ResetAllValues == {"absent", "false", "true"}
truthy_reset_all(v) == v = "true"

\* complete without its try/except: the OSError leaves the handler
complete_without_except(fs, data, fault) ==
    IF is_null(data)
    THEN [fs |-> fs, resp |-> Raised("AttributeError")]
    ELSE
    LET course_name == data.course_name
        lab_id == data.lab_id
        file == completion_file(course_name, lab_id)
    IN  IF fault.open
        THEN [fs |-> fs, resp |-> Raised("OSError")]
        ELSE IF fault.write
        THEN [fs |-> [fs EXCEPT ![file.name] = Empty], resp |-> Raised("OSError")]
        ELSE [fs |-> [fs EXCEPT ![file.name] = completed_line(course_name, lab_id)],
              resp |-> Returned(200,
                  [success |-> TRUE,
                   message |-> "Quiz " \o course_name \o "/" \o lab_id \o " marked as complete",
                   file |-> fullpath(file)])]

(***************************************************************************)
(* complete(): open(completion_file, 'w') creates or truncates the file,   *)
(* the write fills it; any exception gives success False and status 500.   *)
(***************************************************************************)
complete(fs, data, fault) ==
    IF is_null(data)
    THEN [fs |-> fs, resp |-> Raised("AttributeError")]
    ELSE
    LET course_name == data.course_name
        lab_id == data.lab_id
        file == completion_file(course_name, lab_id)
    IN  IF fault.open
        THEN [fs |-> fs,
              resp |-> Returned(500, [success |-> FALSE, message |-> fault.text])]
        ELSE IF fault.write
        THEN [fs |-> [fs EXCEPT ![file.name] = Empty],
              resp |-> Returned(500, [success |-> FALSE, message |-> fault.text])]
        ELSE [fs |-> [fs EXCEPT ![file.name] = completed_line(course_name, lab_id)],
              resp |-> Returned(200,
                  [success |-> TRUE,
                   message |-> "Quiz " \o course_name \o "/" \o lab_id \o " marked as complete",
                   file |-> fullpath(file)])]

(***************************************************************************)
(* os.remove(path): raises OSError when the environment makes the deletion *)
(* fail, FileNotFoundError when the file is not there.                     *)
(***************************************************************************)
os_remove(fs, path, fault) ==
    IF path.name \in fault.remove
    THEN [ok |-> FALSE, fs |-> fs, text |-> fault.text]
    ELSE IF fs[path.name] = NoFile
    THEN [ok |-> FALSE, fs |-> fs, text |-> ENOENT]
    ELSE [ok |-> TRUE, fs |-> [fs EXCEPT ![path.name] = NoFile], text |-> ""]

failed_to_delete(path, text) == "Failed to delete " \o fullpath(path) \o ": " \o text

\* The body of a successful /reset response.  deleted_files and errors are
\* lists in glob order, which is unspecified: they are modelled as sets, and
\* the empty set of errors stands for the None the code sends.
reset_body(deleted_files, errors, key) ==
    [success |-> TRUE,
     message |-> "Quiz reset completed",
     deleted_files |-> deleted_files,
     errors |-> errors,
     localStorage_key |-> key]

\* reset(), "if reset_all:" branch: every globbed file is removed inside its
\* own try/except, a failure is appended to errors and the loop goes on.
reset_all_files(fs, fault) ==
    LET found == glob_markers(fs)
        failed == {p \in found : ~os_remove(fs, p, fault).ok}
        removed == found \ failed
    IN  [fs |-> [n \in Files |-> IF n \in {p.name : p \in removed} THEN NoFile ELSE fs[n]],
         resp |-> Returned(200,
             reset_body({basename(p) : p \in removed},
                        {failed_to_delete(p, os_remove(fs, p, fault).text) : p \in failed},
                        "quizProgress_*"))]

\* reset_one_file with the os.remove call lost: the file is reported deleted
\* and stays
reset_one_file_keeps_file(fs, course_name, lab_id, fault) ==
    LET file == completion_file(course_name, lab_id)
        key == "quizProgress_" \o course_name \o "_" \o lab_id
    IN  IF os_path_exists(fs, file)
        THEN [fs |-> fs, resp |-> Returned(200, reset_body({basename(file)}, {}, key))]
        ELSE [fs |-> fs, resp |-> Returned(200, reset_body({}, {}, key))]

\* reset_one_file without the os.path.exists test: os.remove is always called
reset_one_file_no_exists_check(fs, course_name, lab_id, fault) ==
    LET file == completion_file(course_name, lab_id)
        key == "quizProgress_" \o course_name \o "_" \o lab_id
        rm == os_remove(fs, file, fault)
    IN  IF rm.ok
        THEN [fs |-> rm.fs, resp |-> Returned(200, reset_body({basename(file)}, {}, key))]
        ELSE [fs |-> fs, resp |-> Returned(500, [success |-> FALSE, message |-> rm.text])]

\* reset(), "else:" branch: the file of the pair is removed when it exists; a
\* failure of os.remove reaches the outer except.
reset_one_file(fs, course_name, lab_id, fault) ==
    LET file == completion_file(course_name, lab_id)
        key == "quizProgress_" \o course_name \o "_" \o lab_id
        rm == os_remove(fs, file, fault)
    IN  IF os_path_exists(fs, file)
        THEN IF rm.ok
             THEN [fs |-> rm.fs,
                   resp |-> Returned(200, reset_body({basename(file)}, {}, key))]
             ELSE [fs |-> fs,
                   resp |-> Returned(500, [success |-> FALSE, message |-> rm.text])]
        ELSE [fs |-> fs, resp |-> Returned(200, reset_body({}, {}, key))]

\* reset with reset_all never read: the file of the pair is the only one removed
reset_ignores_reset_all(fs, data, fault) ==
    IF is_null(data)
    THEN [fs |-> fs, resp |-> Raised("AttributeError")]
    ELSE LET file == completion_file(data.course_name, data.lab_id)
             key == "quizProgress_" \o data.course_name \o "_" \o data.lab_id
             rm == os_remove(fs, file, fault)
         IN  IF os_path_exists(fs, file)
             THEN IF rm.ok
                  THEN [fs |-> rm.fs,
                        resp |-> Returned(200, reset_body({basename(file)}, {}, key))]
                  ELSE [fs |-> fs,
                        resp |-> Returned(500, [success |-> FALSE, message |-> rm.text])]
             ELSE [fs |-> fs, resp |-> Returned(200, reset_body({}, {}, key))]

reset(fs, data, fault) ==
    IF is_null(data)
    THEN [fs |-> fs, resp |-> Raised("AttributeError")]
    ELSE IF truthy_reset_all(data.reset_all)
    THEN reset_all_files(fs, fault)
    ELSE reset_one_file(fs, data.course_name, data.lab_id, fault)

(***************************************************************************)
(* Text.  A text is a sequence of characters; NL is the newline, the only  *)
(* whitespace of the alphabet.                                             *)
(***************************************************************************)
NL == "\n"
AnswerChars == {"y", "Y", NL}
Texts == UNION {[1..n -> AnswerChars] : n \in 0..MaxLen}

is_space(c) == c = NL
lower(c) == IF c = "Y" THEN "y" ELSE c

RECURSIVE lstrip(_)
lstrip(s) == IF s # <<>> /\ is_space(Head(s)) THEN lstrip(Tail(s)) ELSE s

RECURSIVE rstrip(_)
rstrip(s) ==
    IF s # <<>> /\ is_space(s[Len(s)]) THEN rstrip(SubSeq(s, 1, Len(s) - 1)) ELSE s

\* str.strip()
strip(s) == rstrip(lstrip(s))

(***************************************************************************)
(* Regular expressions, as far as the course documents of the model use    *)
(* them: a pattern is a sequence of literals, ".", "^" and "$"; "(" opens  *)
(* a group that nothing closes, which re refuses to compile.               *)
(***************************************************************************)
IGNORECASE == "IGNORECASE"
MULTILINE == "MULTILINE"
DOTALL == "DOTALL"

\* re raises re.error ("missing ), unterminated subpattern") for the pattern
re_error(pattern) == \E k \in 1..Len(pattern) : pattern[k] = "("

at_line_start(text, pos, regex_flags) ==
    \/ pos = 1
    \/ MULTILINE \in regex_flags /\ text[pos - 1] = NL

at_line_end(text, pos, regex_flags) ==
    \/ pos = Len(text) + 1
    \/ pos = Len(text) /\ text[pos] = NL
    \/ MULTILINE \in regex_flags /\ text[pos] = NL

\* the pattern from its k-th element on matches the text from position pos on
RECURSIVE match_here(_, _, _, _, _)
match_here(pattern, k, text, pos, regex_flags) ==
    IF k > Len(pattern) THEN TRUE
    ELSE IF pattern[k] = "^"
    THEN at_line_start(text, pos, regex_flags)
         /\ match_here(pattern, k + 1, text, pos, regex_flags)
    ELSE IF pattern[k] = "$"
    THEN at_line_end(text, pos, regex_flags)
         /\ match_here(pattern, k + 1, text, pos, regex_flags)
    ELSE IF pattern[k] = "."
    THEN pos <= Len(text)
         /\ (DOTALL \in regex_flags \/ text[pos] # NL)
         /\ match_here(pattern, k + 1, text, pos + 1, regex_flags)
    ELSE pos <= Len(text)
         /\ (IF IGNORECASE \in regex_flags
             THEN lower(text[pos]) = lower(pattern[k])
             ELSE text[pos] = pattern[k])
         /\ match_here(pattern, k + 1, text, pos + 1, regex_flags)

\* re.search(pattern, answer, regex_flags) is a match: it scans the start
\* positions of the text from the left.
re_search(pattern, text, regex_flags) ==
    \E pos \in 1..(Len(text) + 1) : match_here(pattern, 1, text, pos, regex_flags)

\* "if 'i' in flags: regex_flags |= re.IGNORECASE" and the two like it
regex_flags_of(flags) ==
    (IF \E k \in 1..Len(flags) : flags[k] = "i" THEN {IGNORECASE} ELSE {})
    \cup (IF \E k \in 1..Len(flags) : flags[k] = "m" THEN {MULTILINE} ELSE {})
    \cup (IF \E k \in 1..Len(flags) : flags[k] = "s" THEN {DOTALL} ELSE {})

(***************************************************************************)
(* Course documents.  questions/<course>.yaml is absent, malformed (yaml   *)
(* cannot parse it) or a mapping from lab ids to labs.                     *)
(***************************************************************************)
AnswerPattern(pattern, flags) == [pattern |-> pattern, flags |-> flags]
Question(id, answers) ==
    [id |-> id,
     answers |-> answers,
     correct_message |-> "correct " \o ToString(id),
     hint |-> "hint " \o ToString(id)]

LabBasics ==
    [title |-> "Basics",
     questions |-> <<
        Question(1, <<AnswerPattern(<<"y">>, <<"i">>)>>),
        Question(2, <<AnswerPattern(<<"^", "y", "$">>, <<"m">>),
                      AnswerPattern(<<"y", ".", "y">>, <<"s", "i">>)>>) >>]

LabRegex ==
    [title |-> "Regex",
     questions |-> <<
        Question(1, <<AnswerPattern(<<"(">>, <<>>), AnswerPattern(<<"y">>, <<>>)>>),
        Question(2, <<AnswerPattern(<<"Y", "$">>, <<>>), AnswerPattern(<<".", "y">>, <<>>)>>) >>]

LabAnchors ==
    [title |-> "Anchors",
     questions |-> <<
        Question(2, <<AnswerPattern(<<"^", "y", "$">>, <<>>)>>),
        Question(1, <<AnswerPattern(<<"y", "y">>, <<>>), AnswerPattern(<<"(">>, <<>>)>>),
        Question(3, <<>>) >>]

NoLabs == [l \in {} |-> LabBasics]
FileAbsent == [file |-> "absent", labs |-> NoLabs]
FileMalformed == [file |-> "malformed", labs |-> NoLabs]
FileOf(labs) == [file |-> "ok", labs |-> labs]

DocChoices(course) ==
    IF course = "a"
    THEN {FileAbsent, FileMalformed, FileOf(NoLabs),
          FileOf([l \in {"b_c", "c"} |-> IF l = "c" THEN LabRegex ELSE LabBasics])}
    ELSE {FileAbsent, FileOf([l \in {"c"} |-> LabAnchors])}

\* load_questions(course_name): the parsed document, or None when the file is
\* not found or yaml.safe_load raises.
load_questions(q, course_name) ==
    IF course_name \in DOMAIN q /\ q[course_name].file = "ok"
    THEN [none |-> FALSE, labs |-> q[course_name].labs]
    ELSE [none |-> TRUE, labs |-> NoLabs]

\* "not questions": None and the empty mapping are falsy
falsy(questions) == questions.none \/ DOMAIN questions.labs = {}

\* sorted() of the course names the model uses
SortedCourses == <<"a", "a_b">>

\* get_available_courses(): the stems of questions/*.yaml, sorted
get_available_courses(q) ==
    LET has_file(c) == c \in DOMAIN q /\ q[c].file # "absent"
        F[k \in 0..Len(SortedCourses)] ==
            IF k = 0 THEN <<>>
            ELSE IF has_file(SortedCourses[k])
                 THEN Append(F[k - 1], SortedCourses[k])
                 ELSE F[k - 1]
    IN  F[Len(SortedCourses)]

(***************************************************************************)
(* The handlers that only read.                                            *)
(***************************************************************************)
\* the loop of validate() over question['answers'], from the k-th pattern on
RECURSIVE check_answers(_, _, _)
check_answers(question, answer, k) ==
    IF k > Len(question.answers)
    THEN Returned(200, [correct |-> FALSE, message |-> question.hint])
    ELSE LET answer_pattern == question.answers[k]
         IN  IF re_error(answer_pattern.pattern)
             THEN Raised("re.error")
             ELSE IF re_search(answer_pattern.pattern, answer,
                               regex_flags_of(answer_pattern.flags))
             THEN Returned(200, [correct |-> TRUE, message |-> question.correct_message])
             ELSE check_answers(question, answer, k + 1)

\* next((q for q in quiz['questions'] if q['id'] == question_id), None):
\* the index of the first question with the id, 0 for None
find_question(quiz, question_id) ==
    LET hits == {k \in 1..Len(quiz.questions) : quiz.questions[k].id = question_id}
    IN  IF hits = {} THEN 0 ELSE CHOOSE k \in hits : \A j \in hits : k <= j

\* validate with "lab_id not in questions" forgotten: questions[lab_id] raises
validate_without_lab_test(q, data) ==
    IF is_null(data)
    THEN Raised("AttributeError")
    ELSE
    LET answer == strip(data.answer)
        questions == load_questions(q, data.course_name)
    IN  IF falsy(questions)
        THEN Returned(404, [correct |-> FALSE, message |-> "Lab not found"])
        ELSE IF data.lab_id \notin DOMAIN questions.labs
        THEN Raised("KeyError")
        ELSE LET quiz_data == questions.labs[data.lab_id]
                 found == find_question(quiz_data, data.question_id)
             IN  IF found = 0
                 THEN Returned(404, [correct |-> FALSE, message |-> "Question not found"])
                 ELSE check_answers(quiz_data.questions[found], answer, 1)

validate(q, data) ==
    IF is_null(data)
    THEN Raised("AttributeError")
    ELSE
    LET answer == strip(data.answer)
        questions == load_questions(q, data.course_name)
    IN  IF falsy(questions) \/ data.lab_id \notin DOMAIN questions.labs
        THEN Returned(404, [correct |-> FALSE, message |-> "Lab not found"])
        ELSE LET quiz_data == questions.labs[data.lab_id]
                 found == find_question(quiz_data, data.question_id)
             IN  IF found = 0
                 THEN Returned(404, [correct |-> FALSE, message |-> "Question not found"])
                 ELSE check_answers(quiz_data.questions[found], answer, 1)

\* index(): the listing of every course whose document loads and is not empty
index(q) ==
    LET courses == get_available_courses(q)
        shown == SelectSeq(courses, LAMBDA c : ~falsy(load_questions(q, c)))
        entry(c) == [course |-> c,
                     labs |-> {<<l, load_questions(q, c).labs[l].title>> :
                                  l \in DOMAIN load_questions(q, c).labs}]
    IN  IF courses = <<>>
        THEN Returned(200, [page |-> "No courses available", listing |-> <<>>])
        ELSE Returned(200, [page |-> "Quiz Server",
                            listing |-> [k \in 1..Len(shown) |-> entry(shown[k])]])

\* quiz(course_name, lab_id)
quiz(q, course_name, lab_id) ==
    LET questions == load_questions(q, course_name)
    IN  IF falsy(questions) \/ lab_id \notin DOMAIN questions.labs
        THEN Returned(404, [page |-> "Quiz Not Found",
                            course_name |-> course_name, lab_id |-> lab_id,
                            available_courses |-> get_available_courses(q)])
        ELSE Returned(200, [page |-> questions.labs[lab_id].title,
                            course_name |-> course_name, lab_id |-> lab_id,
                            total_questions |-> Len(questions.labs[lab_id].questions)])

\* reset_page(course_name, lab_id)
reset_page(course_name, lab_id) ==
    Returned(200, [page |-> "Reset Quiz", course_name |-> course_name, lab_id |-> lab_id])

(***************************************************************************)
(* Request inputs.                                                         *)
(***************************************************************************)
RequestCourses == Courses \cup {UnknownCourse}
RequestLabs == Labs \cup {UnknownLab}
QuestionIds == {1, 2, 3, 4}

ValidateData ==
    {BodyNull} \cup
    [json : {"object"}, course_name : RequestCourses, lab_id : RequestLabs,
     question_id : QuestionIds, answer : Texts]

CompleteData ==
    {BodyNull} \cup {[json |-> "object", course_name |-> p[1], lab_id |-> p[2]] : p \in Pairs}

ResetData ==
    {BodyNull} \cup
    {[json |-> "object", course_name |-> p[1], lab_id |-> p[2], reset_all |-> v] :
        p \in Pairs, v \in ResetAllValues}

PathData == [course_name : RequestCourses, lab_id : RequestLabs]

ReadRequests ==
    {[op |-> "index", data |-> BodyNull]}
    \cup [op : {"quiz", "reset_page"}, data : PathData]
    \cup [op : {"validate"}, data : ValidateData]

NoRequest == [op |-> "none"]
NoThreads == [t \in {} |-> NoRequest]
EmptyStore == [n \in Files |-> NoFile]
DocSets == {q \in [Courses -> UNION {DocChoices(c) : c \in Courses}] :
               \A c \in Courses : q[c] \in DocChoices(c)}

\* the documents Spec runs with: /complete and /reset read none of them
FullDocs == CHOOSE q \in DocSets : \A c \in Courses : q[c].file = "ok" /\ DOMAIN q[c].labs # {}

(***************************************************************************)
(* The browser.  A page is the state of the script of HTML_TEMPLATE; no    *)
(* page is open in Spec, SpecRead and SpecConc.                            *)
(***************************************************************************)
\* localStorage.getItem(...) gives null: the item is not there
NoItem == [present |-> FALSE, answers |-> [q \in {} |-> <<>>]]
NoPage ==
    [COURSE_NAME |-> "", LAB_ID |-> "", reloaded |-> FALSE, loaded |-> FALSE,
     TOTAL_QUESTIONS |-> 0, inputs |-> {}, value |-> [q \in {} |-> <<>>],
     completedQuestions |-> {}, hidden |-> {}, disabled |-> {},
     completeSent |-> FALSE]
NoMessages == [validate |-> {}, verdicts |-> {}, complete |-> 0, reset |-> {}, resetDone |-> FALSE]

NoneVerified == [marker |-> {}, reset |-> {}]

NoBrowser ==
    /\ page = NoPage
    /\ localStorage = NoItem
    /\ net = NoMessages
    /\ verified = NoneVerified

(***************************************************************************)
(* Spec: /complete and /reset requests, one at a time.                     *)
(***************************************************************************)
\* what a request remembers of the one before it: a /complete, its pair and
\* whether it succeeded
Summary(l) ==
    IF l.op = "complete" /\ ~is_null(l.data)
    THEN [op |-> "complete", course_name |-> l.data.course_name,
          lab_id |-> l.data.lab_id, success |-> l.resp.body.success]
    ELSE [op |-> "other", course_name |-> "", lab_id |-> "", success |-> FALSE]

Init ==
    /\ docs = FullDocs
    /\ store = EmptyStore
    /\ request = NoRequest
    /\ last = NoRequest
    /\ before = Summary(NoRequest)
    /\ threads = NoThreads
    /\ applied = "none"
    /\ NoBrowser

Complete ==
    \E data \in CompleteData, fault \in CompleteFaults :
        /\ is_null(data) => fault = NoFault
        /\ LET r == complete(store, data, fault)
           IN  /\ last' = [op |-> "complete", data |-> data, fault |-> fault, resp |-> r.resp]
               /\ before' = Summary(last)
               /\ store' = r.fs
               /\ UNCHANGED <<docs, request, threads, applied, page, localStorage, net, verified>>

Reset ==
    \E data \in ResetData, fault \in ResetFaults :
        /\ is_null(data) => fault = NoFault
        /\ LET r == reset(store, data, fault)
           IN  /\ last' = [op |-> "reset", data |-> data, fault |-> fault, resp |-> r.resp]
               /\ before' = Summary(last)
               /\ store' = r.fs
               /\ UNCHANGED <<docs, request, threads, applied, page, localStorage, net, verified>>

Next == Complete \/ Reset

Spec == Init /\ [][Next]_vars

(***************************************************************************)
(* SpecRead: the handlers that only read, each applied to a request drawn  *)
(* with the documents and the store it meets.                              *)
(***************************************************************************)
StoreChoices ==
    {EmptyStore,
     [EmptyStore EXCEPT ![completion_file("a", "c").name] = completed_line("a", "c")]}

InitRead ==
    /\ docs \in DocSets
    /\ store \in StoreChoices
    /\ request \in ReadRequests
    /\ last = NoRequest
    /\ before = Summary(NoRequest)
    /\ threads = NoThreads
    /\ applied = "none"
    /\ NoBrowser

Answered(resp) ==
    /\ last' = [op |-> request.op, data |-> request.data, resp |-> resp]
    /\ request' = NoRequest
    /\ UNCHANGED <<before, threads, applied, page, localStorage, net, verified>>

Index ==
    /\ request.op = "index"
    /\ Answered(index(docs))
    /\ UNCHANGED <<docs, store>>

Quiz ==
    /\ request.op = "quiz"
    /\ Answered(quiz(docs, request.data.course_name, request.data.lab_id))
    /\ UNCHANGED <<docs, store>>

\* Validate with a marker written on a correct verdict
ValidateMarksComplete ==
    /\ request.op = "validate"
    /\ Answered(validate(docs, request.data))
    /\ store' = IF validate(docs, request.data).handled
                   /\ validate(docs, request.data).status = 200
                   /\ validate(docs, request.data).body.correct
                THEN complete(store, request.data, NoFault).fs
                ELSE store
    /\ UNCHANGED docs

Validate ==
    /\ request.op = "validate"
    /\ Answered(validate(docs, request.data))
    /\ UNCHANGED <<docs, store>>

ResetPage ==
    /\ request.op = "reset_page"
    /\ Answered(reset_page(request.data.course_name, request.data.lab_id))
    /\ UNCHANGED <<docs, store>>

NextRead == Index \/ Quiz \/ Validate \/ ResetPage

SpecRead == InitRead /\ [][NextRead]_vars

(***************************************************************************)
(* SpecConc: Flask's development server runs every request in a thread of  *)
(* its own.  The threads handle /complete and /reset (reset_all absent)    *)
(* requests of one pair; a step is one filesystem call.  On the POSIX      *)
(* filesystem the marker path names, os.remove unlinks the entry while a   *)
(* writer that has the file open keeps writing to the unlinked file.       *)
(***************************************************************************)
ConcCourse == "a"
ConcLab == "c"
ConcFile == completion_file(ConcCourse, ConcLab)
Threads == 1..MaxThreads
Idle == [pc |-> "idle", op |-> "none", linked |-> FALSE, resp |-> Raised("")]

InitConc ==
    /\ docs = FullDocs
    /\ store \in {EmptyStore,
                  [EmptyStore EXCEPT ![ConcFile.name] = completed_line(ConcCourse, ConcLab)]}
    /\ request = NoRequest
    /\ last = NoRequest
    /\ before = Summary(NoRequest)
    /\ threads = [t \in Threads |-> Idle]
    /\ applied = "none"
    /\ NoBrowser

\* a request arrives and a thread enters complete() or reset()
Arrive(t) ==
    /\ threads[t].pc = "idle"
    /\ \E op \in {"complete", "reset"} :
          threads' = [threads EXCEPT ![t].op = op,
                          ![t].pc = IF op = "complete" THEN "open" ELSE "exists"]
    /\ UNCHANGED <<docs, store, request, last, before, applied, page, localStorage, net, verified>>

\* complete(): open(completion_file, 'w') creates or truncates the entry
CompleteOpen(t) ==
    /\ threads[t].pc = "open"
    /\ store' = [store EXCEPT ![ConcFile.name] = Empty]
    /\ threads' = [threads EXCEPT ![t].pc = "write", ![t].linked = TRUE]
    /\ applied' = "open"
    /\ UNCHANGED <<docs, request, last, before, page, localStorage, net, verified>>

\* complete(): f.write(...) and the close that ends the with block, then the
\* response; the line reaches the entry unless it was unlinked since the open
CompleteWrite(t) ==
    /\ threads[t].pc = "write"
    /\ store' = IF threads[t].linked
                THEN [store EXCEPT ![ConcFile.name] = completed_line(ConcCourse, ConcLab)]
                ELSE store
    /\ threads' = [threads EXCEPT ![t].pc = "done",
                      ![t].resp = complete(store, [json |-> "object",
                                      course_name |-> ConcCourse, lab_id |-> ConcLab],
                                      NoFault).resp]
    /\ UNCHANGED <<docs, request, last, before, applied, page, localStorage, net, verified>>

\* reset(): "if os.path.exists(completion_file):", and the response when the
\* file is not there
ResetExists(t) ==
    /\ threads[t].pc = "exists"
    /\ threads' = IF os_path_exists(store, ConcFile)
                  THEN [threads EXCEPT ![t].pc = "remove"]
                  ELSE [threads EXCEPT ![t].pc = "done",
                           ![t].resp = reset_one_file(store, ConcCourse, ConcLab, NoFault).resp]
    /\ UNCHANGED <<docs, store, request, last, before, applied, page, localStorage, net, verified>>

\* reset(): os.remove(completion_file) and the response; FileNotFoundError
\* reaches the outer except when the entry is gone by now
ResetRemove(t) ==
    /\ threads[t].pc = "remove"
    /\ LET rm == os_remove(store, ConcFile, NoFault)
       IN  /\ store' = rm.fs
           /\ applied' = IF rm.ok THEN "remove" ELSE applied
           /\ threads' =
                 [u \in Threads |->
                    IF u = t
                    THEN [threads[t] EXCEPT !.pc = "done",
                             !.resp = IF rm.ok
                                      THEN reset_one_file(store, ConcCourse, ConcLab, NoFault).resp
                                      ELSE Returned(500, [success |-> FALSE, message |-> rm.text])]
                    ELSE IF rm.ok
                         THEN [threads[u] EXCEPT !.linked = FALSE]
                         ELSE threads[u]]
    /\ UNCHANGED <<docs, request, last, before, page, localStorage, net, verified>>

NextConc ==
    \E t \in Threads :
        \/ Arrive(t)
        \/ CompleteOpen(t)
        \/ CompleteWrite(t)
        \/ ResetExists(t)
        \/ ResetRemove(t)

SpecConc == InitConc /\ [][NextConc]_vars

(***************************************************************************)
(* SpecPage: one quiz page and the server behind it.  The page is the      *)
(* script of HTML_TEMPLATE: every event handler and every fetch callback   *)
(* is one action, every fetch request and response is in flight on its own *)
(* and the server handles the requests in any order, each handler in one   *)
(* step and without storage faults.  What the page only displays           *)
(* (feedback text, progress counter) is left out.  A reload ends the page: *)
(* the responses it waits for are never delivered, the requests it has     *)
(* sent still reach the server, marked as those of a page that is gone.    *)
(***************************************************************************)
MaxInFlight == 2     \* /validate exchanges, and /complete requests, in flight

LabEmpty == [title |-> "Empty", questions |-> <<>>]

\* the documents SpecPage runs with, and the labs the page is opened on
PageDocs ==
    [c \in Courses |->
        IF c = "a"
        THEN FileOf([l \in {"b_c", "c"} |-> IF l = "c" THEN LabEmpty ELSE LabBasics])
        ELSE FileAbsent]
PagePairs == {<<"a", "b_c">>, <<"a", "c">>}

\* what the user types into an answer field
PageTexts == {<<"y">>, <<"Y">>}

\* the ids of the questions of a lab: one answer field, one button each
question_ids(q, course_name, lab_id) ==
    LET questions == load_questions(q, course_name).labs[lab_id].questions
    IN  {questions[k].id : k \in 1..Len(questions)}

\* the page as the server renders it and the script starts it, before the
\* load event; reloaded tells the page that follows a reset from the first
Page(q, course_name, lab_id, reloaded) ==
    LET inputs == question_ids(q, course_name, lab_id)
    IN  [COURSE_NAME |-> course_name, LAB_ID |-> lab_id,
         reloaded |-> reloaded, loaded |-> FALSE,
         TOTAL_QUESTIONS |-> quiz(q, course_name, lab_id).body.total_questions,
         inputs |-> inputs, value |-> [i \in inputs |-> <<>>],
         completedQuestions |-> {}, hidden |-> {}, disabled |-> {},
         completeSent |-> FALSE]

\* saveProgress(): the non-empty values of the fields answer1..answerN
saveProgress(p) ==
    [present |-> TRUE,
     answers |-> [i \in {j \in 1..p.TOTAL_QUESTIONS : j \in p.inputs /\ p.value[j] # <<>>}
                     |-> p.value[i]]]

\* the items a page of these labs can have saved
SavedChoices ==
    {NoItem,
     [present |-> TRUE, answers |-> [i \in {1} |-> <<"Y">>]],
     [present |-> TRUE, answers |-> [i \in {1, 2} |-> <<"y">>]]}

\* checkAnswer(questionNum): the /validate request it sends
checkAnswer(p, questionNum) ==
    [sender |-> "open",
     data |-> [json |-> "object", course_name |-> p.COURSE_NAME, lab_id |-> p.LAB_ID,
               question_id |-> questionNum, answer |-> strip(p.value[questionNum])]]

\* updateProgress() with a size test that is always true
updateProgress_on_every_verdict(completedQuestions, TOTAL_QUESTIONS) == TRUE

\* updateProgress(): whether it calls writeCompletionFile()
updateProgress(completedQuestions, TOTAL_QUESTIONS) ==
    Cardinality(completedQuestions) = TOTAL_QUESTIONS

\* the bodies of the /complete and /reset requests of the page
writeCompletionFile(p) ==
    [json |-> "object", course_name |-> p.COURSE_NAME, lab_id |-> p.LAB_ID]
resetQuiz(p) ==
    [json |-> "object", course_name |-> p.COURSE_NAME, lab_id |-> p.LAB_ID,
     reset_all |-> "absent"]

InFlight == Cardinality(net.validate) + Cardinality(net.verdicts)
serverVars == <<docs, request, last, before, threads, applied>>

InitPage ==
    /\ docs = PageDocs
    /\ store = EmptyStore
    /\ request = NoRequest
    /\ last = NoRequest
    /\ before = Summary(NoRequest)
    /\ threads = NoThreads
    /\ applied = "none"
    /\ \E p \in PagePairs : page = Page(PageDocs, p[1], p[2], FALSE)
    /\ localStorage \in {item \in SavedChoices : DOMAIN item.answers \subseteq page.inputs}
    /\ net = NoMessages
    /\ verified = NoneVerified

\* the load event: the saved answers are put back and checked again
Load ==
    /\ ~page.loaded
    /\ LET replay == IF localStorage.present
                     THEN DOMAIN localStorage.answers \cap page.inputs
                     ELSE {}
           shown == [page EXCEPT
                        !.loaded = TRUE,
                        !.value = [i \in page.inputs |->
                                      IF i \in replay THEN localStorage.answers[i] ELSE <<>>]]
       IN  /\ page' = shown
           /\ net' = [net EXCEPT !.validate = @ \cup {checkAnswer(shown, i) : i \in replay}]
    /\ UNCHANGED <<store, localStorage, verified>>
    /\ UNCHANGED serverVars

\* the input event of an answer field: the user edits it, saveProgress()
Input ==
    \E i \in page.inputs \ page.disabled, text \in PageTexts :
        /\ page.loaded
        /\ text # page.value[i]
        /\ page' = [page EXCEPT !.value[i] = text]
        /\ localStorage' = saveProgress(page')
        /\ UNCHANGED <<store, net, verified>>
        /\ UNCHANGED serverVars

\* CheckAnswer with the check button never hidden and the field never disabled
CheckAnswerOfAnyQuestion ==
    \E i \in page.inputs :
        /\ page.loaded
        /\ InFlight < MaxInFlight
        /\ net' = [net EXCEPT !.validate = @ \cup {checkAnswer(page, i)}]
        /\ UNCHANGED <<store, page, localStorage, verified>>
        /\ UNCHANGED serverVars

\* a click on the check button of a question, or Enter in its answer field:
\* checkAnswer(i) sends the /validate request
CheckAnswer ==
    \E i \in page.inputs :
        /\ page.loaded
        /\ i \notin page.hidden \/ i \notin page.disabled
        /\ InFlight < MaxInFlight
        /\ net' = [net EXCEPT !.validate = @ \cup {checkAnswer(page, i)}]
        /\ UNCHANGED <<store, page, localStorage, verified>>
        /\ UNCHANGED serverVars

\* the server handles the /validate request m; the response travels back
\* unless the page that asked is gone
ValidateServed(m) ==
    /\ net' = [net EXCEPT
                  !.validate = @ \ {m},
                  !.verdicts = IF m.sender = "open"
                               THEN @ \cup {[data |-> m.data,
                                             resp |-> validate(docs, m.data)]}
                               ELSE @]
    /\ UNCHANGED <<store, page, localStorage>>
    /\ UNCHANGED serverVars

ServeValidate ==
    \E m \in net.validate :
        /\ ValidateServed(m)
        /\ UNCHANGED verified

\* the callbacks of checkAnswer's fetch: on a correct verdict the question is
\* completed and updateProgress() runs; an error page instead of JSON goes to
\* the catch
VerdictArrives ==
    \E v \in net.verdicts :
        LET questionNum == v.data.question_id
            correct == v.resp.handled /\ v.resp.body.correct
            completedQuestions == IF correct
                                  THEN page.completedQuestions \cup {questionNum}
                                  ELSE page.completedQuestions
            sends == correct /\ updateProgress(completedQuestions, page.TOTAL_QUESTIONS)
        IN  /\ sends => net.complete < MaxInFlight
            /\ page' = [page EXCEPT
                           !.completedQuestions = completedQuestions,
                           !.hidden = IF correct THEN @ \cup {questionNum} ELSE @,
                           !.disabled = IF correct THEN @ \cup {questionNum} ELSE @,
                           !.completeSent = @ \/ sends]
            /\ net' = [net EXCEPT
                          !.verdicts = @ \ {v},
                          !.complete = IF sends THEN @ + 1 ELSE @]
            /\ UNCHANGED <<store, localStorage, verified>>
            /\ UNCHANGED serverVars

\* the server handles a /complete request of the page; the callbacks of
\* writeCompletionFile's fetch only log the response
ServeComplete ==
    /\ net.complete > 0
    /\ store' = complete(store, writeCompletionFile(page), NoFault).fs
    /\ net' = [net EXCEPT !.complete = @ - 1]
    /\ UNCHANGED <<page, localStorage, verified>>
    /\ UNCHANGED serverVars

\* a click on Reset Quiz: resetQuiz() sends the /reset request
ResetQuiz ==
    /\ net' = [net EXCEPT !.reset = @ \cup {"open"}]
    /\ UNCHANGED <<store, page, localStorage, verified>>
    /\ UNCHANGED serverVars

\* the server handles a /reset request of the page; the response travels
\* back unless the page that asked is gone
ResetServed(sender) ==
    /\ store' = reset(store, resetQuiz(page), NoFault).fs
    /\ net' = [net EXCEPT
                  !.reset = @ \ {sender},
                  !.resetDone = @ \/ sender = "open"]
    /\ UNCHANGED <<page, localStorage>>
    /\ UNCHANGED serverVars

ServeReset ==
    \E sender \in net.reset :
        /\ ResetServed(sender)
        /\ UNCHANGED verified

\* the callbacks of resetQuiz's fetch: the item is removed and the page
\* reloaded, which the server answers with quiz()
ResetArrives ==
    /\ net.resetDone
    /\ localStorage' = NoItem
    /\ page' = Page(docs, page.COURSE_NAME, page.LAB_ID, TRUE)
    /\ net' = [net EXCEPT
                  !.validate = {[m EXCEPT !.sender = "gone"] : m \in @},
                  !.reset = {"gone" : sender \in @},
                  !.verdicts = {},
                  !.resetDone = FALSE]
    /\ UNCHANGED <<store, verified>>
    /\ UNCHANGED serverVars

NextPage ==
    \/ Load
    \/ Input
    \/ CheckAnswer
    \/ ServeValidate
    \/ VerdictArrives
    \/ ServeComplete
    \/ ResetQuiz
    \/ ServeReset
    \/ ResetArrives

SpecPage == InitPage /\ [][NextPage]_vars

(***************************************************************************)
(* SpecMarker: SpecPage with a record of what /validate answered.          *)
(***************************************************************************)
\* ServeValidate, a correct verdict recorded
ServeValidateRecorded ==
    \E m \in net.validate :
        /\ ValidateServed(m)
        /\ verified' = IF validate(docs, m.data).handled /\ validate(docs, m.data).body.correct
                       THEN [marker |-> verified.marker \cup {m.data.question_id},
                             reset |-> verified.reset \cup {m.data.question_id}]
                       ELSE verified

\* ServeReset, the record emptied: of the verdicts since the last /reset
\* always, of the verdicts since the last deletion when the marker is deleted
ServeResetRecorded ==
    \E sender \in net.reset :
        /\ ResetServed(sender)
        /\ verified' = [marker |-> IF reset(store, resetQuiz(page), NoFault)
                                          .resp.body.deleted_files # {}
                                    THEN {}
                                    ELSE verified.marker,
                         reset |-> {}]

NextMarker ==
    \/ Load
    \/ Input
    \/ CheckAnswer
    \/ ServeValidateRecorded
    \/ VerdictArrives
    \/ ServeComplete
    \/ ResetQuiz
    \/ ServeResetRecorded
    \/ ResetArrives

SpecMarker == InitPage /\ [][NextMarker]_vars

(***************************************************************************)
(* Properties of the marker store (Spec).                                  *)
(***************************************************************************)
MarkerExists(fs, course_name, lab_id) ==
    fs[completion_file(course_name, lab_id).name] # NoFile

\* the last request handled is a /reset with a JSON object as its body
LastIsReset(l) == l.op = "reset" /\ ~is_null(l.data)
SinglePairReset(l) == LastIsReset(l) /\ l.data.reset_all \in {"absent", "false"}
ResetAll(l) == LastIsReset(l) /\ l.data.reset_all = "true"

\* the request before the last was a successful /complete of the pair the last
\* request, a /reset without reset_all, names
CompleteThenReset ==
    /\ SinglePairReset(last)
    /\ before.op = "complete"
    /\ before.success
    /\ before.course_name = last.data.course_name
    /\ before.lab_id = last.data.lab_id

\* C1 as stated: for every pair, a successful /complete followed by a /reset
\* of the same pair (reset_all absent or false) leaves no marker for the pair.
C1_RoundTripAnyReset ==
    CompleteThenReset =>
        ~MarkerExists(store, last.data.course_name, last.data.lab_id)

\* C1, amended: a successful /complete followed by a /reset of the same pair
\* (reset_all absent or false) that returns success=true leaves no marker for
\* the pair; when os.remove fails the reset answers success=false and the
\* marker stays.
C1_RoundTrip ==
    (CompleteThenReset /\ last.resp.body.success) =>
        /\ ~MarkerExists(store, last.data.course_name, last.data.lab_id)
        /\ last.resp.body.deleted_files
              = {completion_file(last.data.course_name, last.data.lab_id).name}

C1_RoundTripWitness ==
    /\ CompleteThenReset
    /\ last.resp.body.success
    /\ ~MarkerExists(store, last.data.course_name, last.data.lab_id)
    /\ store # EmptyStore

\* C2: a /reset without reset_all deletes only the marker of its pair; the
\* marker of every other pair (a pair whose course or lab differs) is left as
\* it was.
C2_ResetLeavesOtherPairs ==
    [][SinglePairReset(last') =>
          \A p \in Pairs :
              p # <<last'.data.course_name, last'.data.lab_id>> =>
                  (MarkerExists(store', p[1], p[2]) <=> MarkerExists(store, p[1], p[2]))]_vars

\* C3: a /reset with reset_all set and no deletion failure removes the marker
\* of every pair in the store, whatever pair the request names: it reports
\* every marker that was there as deleted and leaves the store empty.
C3_ResetAllEmptiesStore ==
    [][(ResetAll(last') /\ last'.fault.remove \cap {n \in Files : store[n] # NoFile} = {}) =>
          /\ store' = EmptyStore
          /\ last'.resp.handled /\ last'.resp.body.success
          /\ last'.resp.body.deleted_files = {n \in Files : store[n] # NoFile}
          /\ last'.resp.body.errors = {}]_vars

C3_ResetAllWitness ==
    /\ ResetAll(last)
    /\ last.resp.body.errors = {}
    /\ Cardinality(last.resp.body.deleted_files) >= 2
    /\ last.data.course_name = "a" /\ last.data.lab_id = "c"
    /\ store = EmptyStore

\* C4: a /reset of a pair that has no marker, and a reset-all on an empty
\* store, returns success=true with no deleted file and no error and leaves
\* the store as it was, whatever deletion faults the environment holds ready.
C4_ResetOfNothing ==
    [][(/\ LastIsReset(last')
        /\ IF last'.data.reset_all = "true"
           THEN store = EmptyStore
           ELSE ~MarkerExists(store, last'.data.course_name, last'.data.lab_id)) =>
          /\ last'.resp.handled
          /\ last'.resp.status = 200
          /\ last'.resp.body.success
          /\ last'.resp.body.deleted_files = {}
          /\ last'.resp.body.errors = {}
          /\ store' = store]_vars

C4_ResetOfNothingWitness ==
    /\ SinglePairReset(last)
    /\ ~MarkerExists(store, last.data.course_name, last.data.lab_id)
    /\ completion_file(last.data.course_name, last.data.lab_id).name \in last.fault.remove
    /\ last.resp.body.success
    /\ last.resp.body.deleted_files = {}
    /\ store # EmptyStore

\* the storage call of the request l fails in the store fs
WriteFails(l) == l.op = "complete" /\ ~is_null(l.data) /\ (l.fault.open \/ l.fault.write)
SingleDeleteFails(fs, l) ==
    /\ SinglePairReset(l)
    /\ MarkerExists(fs, l.data.course_name, l.data.lab_id)
    /\ completion_file(l.data.course_name, l.data.lab_id).name \in l.fault.remove
FailingDeletes(fs, l) == {n \in l.fault.remove : fs[n] # NoFile}
SomeDeleteFails(fs, l) == ResetAll(l) /\ FailingDeletes(fs, l) # {}

FailureResponse(l) ==
    l.resp = Returned(500, [success |-> FALSE, message |-> l.fault.text])

\* C10 as stated: whenever the marker write of /complete or a marker deletion
\* of /reset, in single-pair or in reset-all mode, fails, the response carries
\* success=false with the error text.
C10_EveryFailureIsSuccessFalse ==
    [][(WriteFails(last') \/ SingleDeleteFails(store, last') \/ SomeDeleteFails(store, last'))
          => FailureResponse(last')]_vars

\* C10, amended: a failed marker write of /complete and a failed deletion of a
\* single-pair /reset give status 500, success=false and the error text as the
\* message; a failed deletion of a reset-all /reset leaves success=true and is
\* listed in errors with the path and the error text, the other markers being
\* deleted; the handler returns a response in every case.
C10_StorageFailureReported ==
    [][/\ (WriteFails(last') \/ SingleDeleteFails(store, last')) => FailureResponse(last')
       /\ SomeDeleteFails(store, last') =>
             /\ last'.resp.handled
             /\ last'.resp.status = 200
             /\ last'.resp.body.success
             /\ last'.resp.body.errors
                   = {failed_to_delete([dir |-> "/root", name |-> n], last'.fault.text) :
                         n \in FailingDeletes(store, last')}
             /\ last'.resp.body.deleted_files
                   = {n \in Files : store[n] # NoFile} \ FailingDeletes(store, last')
             /\ \A n \in Files : store'[n] # NoFile <=> n \in FailingDeletes(store, last')]_vars

C10_StorageFailureWitness ==
    /\ ResetAll(last)
    /\ last.resp.body.success
    /\ last.resp.body.errors # {}
    /\ last.resp.body.deleted_files # {}
    /\ last.fault.text = "ENOSPC"

(***************************************************************************)
(* Properties of concurrent requests (SpecConc).                           *)
(***************************************************************************)
Quiescent == \A t \in Threads : threads[t].pc \in {"idle", "done"}

\* the marker is there exactly when the last call that created or unlinked
\* its entry was an open
LastWriterWins ==
    /\ applied = "open" => os_path_exists(store, ConcFile)
    /\ applied = "remove" => ~os_path_exists(store, ConcFile)

\* C5: whatever the interleaving of concurrent /complete and /reset requests
\* of one pair, with no storage fault, every request returns success=true and
\* the marker is present or absent as the request whose marker operation was
\* applied last left it.
C5_ConcurrentRequestsSucceed ==
    Quiescent =>
        /\ \A t \in Threads :
              threads[t].pc = "done" =>
                  threads[t].resp.handled /\ threads[t].resp.body.success
        /\ LastWriterWins

(***************************************************************************)
(* Properties of the handlers that only read (SpecRead).  The statements   *)
(* about /validate are made from the documents, not from the loader, and   *)
(* from a definition of matching that quantifies over the place of the     *)
(* match instead of scanning for it.                                       *)
(***************************************************************************)
LabKnown(q, course_name, lab_id) ==
    /\ course_name \in DOMAIN q
    /\ q[course_name].file = "ok"
    /\ lab_id \in DOMAIN q[course_name].labs

QuestionsOf(q, data) == q[data.course_name].labs[data.lab_id].questions

QuestionKnown(q, data) ==
    /\ LabKnown(q, data.course_name, data.lab_id)
    /\ \E k \in 1..Len(QuestionsOf(q, data)) : QuestionsOf(q, data)[k].id = data.question_id

TheQuestion(q, data) ==
    QuestionsOf(q, data)[CHOOSE k \in 1..Len(QuestionsOf(q, data)) :
                             QuestionsOf(q, data)[k].id = data.question_id]

\* the text without its leading and trailing whitespace
Trimmed(text) ==
    LET inked == {k \in 1..Len(text) : ~is_space(text[k])}
    IN  IF inked = {} THEN <<>>
        ELSE SubSeq(text, CHOOSE k \in inked : \A j \in inked : k <= j,
                          CHOOSE k \in inked : \A j \in inked : k >= j)

Letters(flags) == {flags[k] : k \in 1..Len(flags)}
Consumes(c) == c \notin {"^", "$"}

\* the pattern, with the modifiers its flags declare, matches some part of
\* the text: there is a start such that every element of the pattern holds at
\* its place
Matched(answer_pattern, text) ==
    LET pattern == answer_pattern.pattern
        mods == Letters(answer_pattern.flags)
        n == Len(text)
        place(start, k) == start + Cardinality({j \in 1..(k - 1) : Consumes(pattern[j])})
        holds(c, pos) ==
            IF c = "^" THEN pos = 1 \/ ("m" \in mods /\ pos - 1 \in 1..n /\ text[pos - 1] = NL)
            ELSE IF c = "$"
            THEN \/ pos = n + 1
                 \/ pos = n /\ text[n] = NL
                 \/ "m" \in mods /\ pos \in 1..n /\ text[pos] = NL
            ELSE IF c = "."
            THEN pos \in 1..n /\ ("s" \in mods \/ text[pos] # NL)
            ELSE /\ pos \in 1..n
                 /\ \/ text[pos] = c
                    \/ "i" \in mods /\ {text[pos], c} \subseteq {"y", "Y"}
    IN  /\ \A k \in 1..Len(pattern) : pattern[k] # "("
        /\ \E start \in 1..(n + 1) :
              \A k \in 1..Len(pattern) : holds(pattern[k], place(start, k))

ValidateOfKnownQuestion ==
    last.op = "validate" /\ ~is_null(last.data) /\ QuestionKnown(docs, last.data)

Verdict(question, text) ==
    IF \E k \in 1..Len(question.answers) : Matched(question.answers[k], text)
    THEN Returned(200, [correct |-> TRUE, message |-> question.correct_message])
    ELSE Returned(200, [correct |-> FALSE, message |-> question.hint])

\* C6: for every known (course, lab, question) triple, /validate returns
\* correct=true with the question's correct_message when the trimmed text is
\* matched by at least one of the question's patterns, and correct=false with
\* the hint when it is matched by none.
C6_VerdictFollowsPatterns ==
    ValidateOfKnownQuestion =>
        last.resp = Verdict(TheQuestion(docs, last.data), Trimmed(last.data.answer))

\* Where no pattern that fails to compile is reached, the verdict is the one
\* the patterns give.
VerdictWhenNoPatternRaises ==
    (ValidateOfKnownQuestion /\ last.resp.handled) =>
        last.resp = Verdict(TheQuestion(docs, last.data), Trimmed(last.data.answer))

\* C7: /validate answers 404 'Lab not found' when the course document is
\* absent or lacks the lab, otherwise 404 'Question not found' when no question
\* of the lab has the id, and never 404 for a question that is in the lab.
C7_NotFoundResponses ==
    (last.op = "validate" /\ ~is_null(last.data)) =>
        IF ~LabKnown(docs, last.data.course_name, last.data.lab_id)
        THEN last.resp = Returned(404, [correct |-> FALSE, message |-> "Lab not found"])
        ELSE IF ~QuestionKnown(docs, last.data)
        THEN last.resp = Returned(404, [correct |-> FALSE, message |-> "Question not found"])
        ELSE last.resp.status # 404

C7_NotFoundWitness ==
    /\ last.op = "validate" /\ ~is_null(last.data)
    /\ LabKnown(docs, last.data.course_name, last.data.lab_id)
    /\ ~QuestionKnown(docs, last.data)
    /\ last.resp.status = 404
    /\ last.resp.body.message = "Question not found"

\* C8: a /validate call, whatever its input and its outcome, leaves the marker
\* store and the course documents as they were.
C8_ValidateChangesNothing ==
    [][last'.op = "validate" => store' = store /\ docs' = docs]_vars

C8_ValidateWitness ==
    /\ ValidateOfKnownQuestion
    /\ last.resp.handled
    /\ last.resp.body.correct
    /\ store # EmptyStore
    /\ ~MarkerExists(store, last.data.course_name, last.data.lab_id)

\* C9: every handler ends by returning a response; no failure raised while a
\* request is handled leaves the handler.
C9_HandlersReturn ==
    last.op # "none" => last.resp.handled

(***************************************************************************)
(* Repeated /complete calls (Spec).                                        *)
(***************************************************************************)
\* the request handled by this step is a /complete with a JSON object as its
\* body that meets no storage failure
CompleteHandled(l) == l.op = "complete" /\ ~is_null(l.data) /\ l.fault = NoFault

\* the request handled by this step is a /complete of the pair whose
\* /complete succeeded just before it
CompleteAgain(b, l) ==
    /\ CompleteHandled(l)
    /\ b.op = "complete"
    /\ b.success
    /\ b.course_name = l.data.course_name
    /\ b.lab_id = l.data.lab_id

\* C11, for calls that meet no storage failure: every /complete call returns
\* success=true and leaves the marker of its pair present and the marker of
\* every other pair as it was, and a /complete that follows a /complete of the
\* same pair leaves the store as the first call left it.
C11_CompleteIdempotent ==
    [][CompleteHandled(last') =>
          /\ last'.resp.body.success
          /\ MarkerExists(store', last'.data.course_name, last'.data.lab_id)
          /\ \A p \in Pairs :
                p # <<last'.data.course_name, last'.data.lab_id>> =>
                    (MarkerExists(store', p[1], p[2]) <=> MarkerExists(store, p[1], p[2]))
          /\ CompleteAgain(Summary(last), last') => store' = store]_vars

\* what of C11 the handler does keep: a /complete without storage failure
\* returns success=true and writes the marker file of its pair and no other
\* file, and repeated right after a /complete of the same pair it leaves every
\* file as it was
CompleteOverwritesOneFile ==
    [][CompleteHandled(last') =>
          LET file == completion_file(last'.data.course_name, last'.data.lab_id)
          IN  /\ last'.resp.body.success
              /\ store' = [store EXCEPT ![file.name] =
                              completed_line(last'.data.course_name, last'.data.lab_id)]
              /\ CompleteAgain(Summary(last), last') => store' = store]_vars

CompleteAgainReached ==
    /\ CompleteAgain(before, last)
    /\ last.resp.body.success

(***************************************************************************)
(* Properties of the quiz page (SpecPage) and its marker (SpecMarker).     *)
(***************************************************************************)
PageMarkerExists == MarkerExists(store, page.COURSE_NAME, page.LAB_ID)

\* every question of the page has been verified correct in this page session
AllVerified == page.completedQuestions = page.inputs

\* C12: the marker of a pair exists only on full completion of its lab: in
\* every reachable state where the marker exists, every question of the lab
\* has received a correct verdict from /validate since the marker was last
\* absent (since a /reset last deleted it, or since the start).
C12_MarkerOnlyOnFullCompletion ==
    PageMarkerExists => page.inputs \subseteq verified.marker

\* C13: within one page session a question moves only from unanswered to
\* correct: a question in the completed set stays there with its field
\* disabled and its button hidden, no /validate request is sent for it any
\* more, and the page loses it only by the reload that follows the response
\* to its /reset request, which clears the saved answers.
C13_QuestionStaysCompleted ==
    [][\A i \in page.completedQuestions :
          /\ i \in page.disabled /\ i \in page.hidden
          /\ page'.loaded =>
                /\ i \in page'.completedQuestions
                /\ i \in page'.disabled /\ i \in page'.hidden
                /\ \A m \in net'.validate \ net.validate : m.data.question_id # i
          /\ ~page'.loaded =>
                /\ net.resetDone
                /\ page'.completedQuestions = {}
                /\ localStorage' = NoItem]_vars

\* a completed question whose earlier submission is answered late, and wrong
C13_LateVerdictWitness ==
    \E i \in page.completedQuestions, v \in net.verdicts :
        /\ v.data.question_id = i
        /\ ~v.resp.body.correct
        /\ i \in page.disabled /\ i \in page.hidden

\* C14 as stated: the page has sent a /complete request in this page session
\* when, and only when, every question of the lab has been verified correct
\* in it (the completed set has reached the question count).
C14_CompleteSentIffAllVerified ==
    page.completeSent <=> Cardinality(page.completedQuestions) = page.TOTAL_QUESTIONS

\* C14, amended: for a lab with at least one question the page has sent a
\* /complete request in this page session when, and only when, every question
\* of the lab has been verified correct in it; the page of a lab without
\* questions never sends one.
C14_CompleteSentIffLastVerified ==
    /\ page.TOTAL_QUESTIONS > 0 =>
          (page.completeSent <=>
              /\ AllVerified
              /\ Cardinality(page.completedQuestions) = page.TOTAL_QUESTIONS)
    /\ page.TOTAL_QUESTIONS = 0 => ~page.completeSent
    /\ ~page.completeSent /\ ~page.reloaded => net.complete = 0 /\ ~PageMarkerExists

C14_CompleteSentWitness ==
    /\ page.completeSent
    /\ page.TOTAL_QUESTIONS = 2
    /\ AllVerified
    /\ net.complete > 0

\* C15: once the server has handled the /reset of the page and the page has
\* reloaded with its saved answers cleared, the pair has no marker until
\* every question has been verified correct again (by the reloaded page, or
\* by /validate since that /reset); a /complete sent before the reset does
\* not bring the marker back.
C15_NoMarkerAfterReset ==
    (/\ page.reloaded
     /\ ~AllVerified
     /\ ~(page.inputs \subseteq verified.reset)) => ~PageMarkerExists

====
